---------------------------- MODULE Spec2Model ----------------------------
(***************************************************************************)
(* Model of src/main.cpp: the DIMACS loader read_dimacs_gr, the two        *)
(* shortest-path runs of main (dijkstra_sequential, then                   *)
(* dijkstra_parallel with its threshold-selected parallel relaxation) and  *)
(* main's path reconstruction.                                             *)
(*                                                                         *)
(* Granularity: one step per loaded line, per popped queue entry, per      *)
(* relaxed edge, per worker operation (comparison, lock, append+unlock)    *)
(* and per merged update.  Comment and empty lines of the input file       *)
(* change nothing and are left out.  The input file holds its problem      *)
(* line before its arc lines.                                              *)
(***************************************************************************)
EXTENDS Integers, Sequences, FiniteSets

\* ------------------------------------------------------------------ bounds
\* Node count declared by the problem line of the input file.
NumNodes == 3
\* Largest number of arc lines of the input file.
MaxArcs == 3
\* Largest arc weight of the input file (weights range over -1..MaxW: the
\* loader stores whatever integer the arc line holds).
MaxW == 2

\* ------------------------------------------------------- program constants
\* main.cpp:109/168  INF = numeric_limits<long long>::max() / 4, at the
\* integer width of the model checker.
INF == 2147483647 \div 4
\* main.cpp:292  int source = 1
source == 1
\* main.cpp:114  "no parent"
NoParent == -1
\* main.cpp:181  PARALLEL_THRESHOLD (100 in the source).  The model scales
\* the edge-count cutoff down so that a node of the bounded input reaches it.
PARALLEL_THRESHOLD == 2
\* main.cpp:297  max_allowed_parallelism
p == 4

Weights == -1..MaxW
\* A distance below MinDist needs a path of more than NumNodes edges over the
\* NumNodes + 1 slots of the vectors, that is, a negative cycle: the loops of
\* the source never end on such an input, and the model stops following them
\* below this value.
MinDist == -NumNodes

VARIABLES
  pc,          \* position of the control thread in main
  ok,          \* return value of read_dimacs_gr
  n_nodes,     \* main.cpp:285
  narcs,       \* arc lines read so far
  graph,       \* adjacency lists, index 0..n_nodes
  dist,        \* distance vector of the run in progress
  parent,      \* parent vector of the run in progress
  pq,          \* priority queue of the run in progress
  d, u,        \* the popped entry
  i,           \* index of the sequential for loop / of the merge loop
  wstate,      \* state of the parallel_for body of each edge index
  update_mutex,\* 0 when free, else the edge index whose body holds it
  all_updates, \* the shared candidate vector
  res_seq,     \* result of dijkstra_sequential
  res_prev,    \* result of an earlier dijkstra_parallel run (re-run only)
  target,      \* argv[2]
  v,           \* cursor of the path reconstruction loop
  path,        \* the reconstructed path
  visit,       \* history: the nodes popped as current entries by the run
               \* in progress, in order
  visit_seq    \* history: visit of dijkstra_sequential at its return

vars == <<pc, ok, n_nodes, narcs, graph, dist, parent, pq, d, u, i, wstate,
          update_mutex, all_updates, res_seq, res_prev, target, v, path,
          visit, visit_seq>>

loadVars == <<ok, n_nodes, narcs, graph>>
runVars == <<dist, parent, pq, d, u, i>>
parVars == <<wstate, update_mutex, all_updates>>
outVars == <<target, v, path>>
histVars == <<visit, visit_seq>>

\* ------------------------------------------------------------- data types
\* main.cpp:24-28
Edge(to, weight) == [to |-> to, weight |-> weight]
\* main.cpp:212-217
Update(uv, und, up) == [v |-> uv, nd |-> und, p |-> up]
\* main.cpp:118  PQItem, ordered by std::greater<pair>: distance, then node
\* The reverse order: the entry of greatest distance comes first.
PQGreater(a, b) == a[1] > b[1] \/ (a[1] = b[1] /\ a[2] > b[2])
PQLess(a, b) == a[1] < b[1] \/ (a[1] = b[1] /\ a[2] < b[2])

\* std::priority_queue as the ascending sequence of its entries: top is the
\* head, push inserts in order.
RECURSIVE PQPush(_, _)
PQPush(q, item) ==
  IF q = <<>> THEN <<item>>
  ELSE IF PQLess(item, Head(q)) THEN <<item>> \o q
  ELSE <<Head(q)>> \o PQPush(Tail(q), item)

State(ds, ps, q) == [dist |-> ds, parent |-> ps, pq |-> q]

\* RelaxEdge without line 144: the improved node is not queued.
RelaxEdgeNoPush(st, dd, uu, e) ==
  LET nd == dd + e.weight IN
  IF nd < st.dist[e.to]
  THEN State([st.dist EXCEPT ![e.to] = nd],
             [st.parent EXCEPT ![e.to] = uu],
             st.pq)
  ELSE st

\* main.cpp:138-145  one iteration of the relaxation loop of
\* dijkstra_sequential
RelaxEdge(st, dd, uu, e) ==
  LET nd == dd + e.weight IN
  IF nd < st.dist[e.to]
  THEN State([st.dist EXCEPT ![e.to] = nd],
             [st.parent EXCEPT ![e.to] = uu],
             PQPush(st.pq, <<nd, e.to>>))
  ELSE st

\* main.cpp:200-206  one iteration of the sequential branch of
\* dijkstra_parallel
RelaxEdgeSmall(st, dd, uu, e) ==
  LET nd == dd + e.weight IN
  IF nd < st.dist[e.to]
  THEN State([st.dist EXCEPT ![e.to] = nd],
             [st.parent EXCEPT ![e.to] = uu],
             PQPush(st.pq, <<nd, e.to>>))
  ELSE st

\* Proposes with the comparison of line 229 inverted.
ProposesInverted(ds, dd, e) == dd + e.weight > ds[e.to]

\* main.cpp:227-229  the comparison of the parallel_for body
Proposes(ds, dd, e) == dd + e.weight < ds[e.to]

\* ApplyUpdate without the re-check of line 241: every candidate is written.
ApplyUpdateBlind(st, up) ==
  State([st.dist EXCEPT ![up.v] = up.nd],
        [st.parent EXCEPT ![up.v] = up.p],
        PQPush(st.pq, <<up.nd, up.v>>))

\* ApplyUpdate without line 244: the distance is written, the parent is not.
ApplyUpdateNoParent(st, up) ==
  IF up.nd < st.dist[up.v]
  THEN State([st.dist EXCEPT ![up.v] = up.nd],
             st.parent,
             PQPush(st.pq, <<up.nd, up.v>>))
  ELSE st

\* main.cpp:241-246  one iteration of the merge loop
ApplyUpdate(st, up) ==
  IF up.nd < st.dist[up.v]
  THEN State([st.dist EXCEPT ![up.v] = up.nd],
             [st.parent EXCEPT ![up.v] = up.p],
             PQPush(st.pq, <<up.nd, up.v>>))
  ELSE st

\* main.cpp:196  the strategy selection
UseSequentialBranch(edges) == Len(edges) < PARALLEL_THRESHOLD

\* InitDist with the vector filled with 0 instead of INF.
InitDistZero(n) == [x \in 0..n |-> 0]

\* main.cpp:113-114,121-123 / 171-172,177-178  the state a run starts from
InitDist(n) == [x \in 0..n |-> IF x = source THEN 0 ELSE INF]
InitParent(n) == [x \in 0..n |-> NoParent]
InitPQ == <<<<0, source>>>>

\* main.cpp:110,169  graph.size()
Size(g) == Cardinality(DOMAIN g)

\* main.cpp:347  std::reverse
Reverse(s) == [k \in 1..Len(s) |-> s[Len(s) + 1 - k]]

\* ------------------------------------------------------------------- Init
Init ==
  /\ pc = "open"
  /\ ok = FALSE
  /\ n_nodes = 0
  /\ narcs = 0
  /\ graph = <<>>
  /\ dist = <<>>
  /\ parent = <<>>
  /\ pq = <<>>
  /\ d = 0
  /\ u = 0
  /\ i = 0
  /\ wstate = <<>>
  /\ update_mutex = 0
  /\ all_updates = <<>>
  /\ res_seq = <<>>
  /\ res_prev = <<>>
  /\ target = 0
  /\ v = 0
  /\ path = <<>>
  /\ visit = <<>>
  /\ visit_seq = <<>>

\* ----------------------------------------------------------- read_dimacs_gr
\* main.cpp:43-48  the file cannot be opened: return false, main returns 1
OpenFail ==
  /\ pc = "open"
  /\ pc' = "exit"
  /\ ok' = FALSE
  /\ UNCHANGED <<n_nodes, narcs, graph, runVars, parVars, res_seq, res_prev,
                 outVars, histVars>>

\* main.cpp:43,50-52  the file is open
OpenOk ==
  /\ pc = "open"
  /\ pc' = "problem"
  /\ UNCHANGED <<loadVars, runVars, parVars, res_seq, res_prev, outVars, histVars>>

\* main.cpp:63-72  the problem line "p sp n m"
ReadProblem ==
  /\ pc = "problem"
  /\ n_nodes' = NumNodes
  /\ graph' = [x \in 0..NumNodes |-> <<>>]
  /\ pc' = "arcs"
  /\ UNCHANGED <<ok, narcs, runVars, parVars, res_seq, res_prev, outVars, histVars>>

\* main.cpp:73-82  an arc line "a u v w": stored as read
ReadArc(au, av, aw) ==
  /\ pc = "arcs"
  /\ narcs < MaxArcs
  /\ narcs' = narcs + 1
  /\ graph' = [graph EXCEPT ![au] = Append(@, Edge(av, aw))]
  /\ UNCHANGED <<pc, ok, n_nodes, runVars, parVars, res_seq, res_prev, outVars,
                 histVars>>

\* main.cpp:55,84,286-290  end of file: return true, main goes on
EndOfFile ==
  /\ pc = "arcs"
  /\ ok' = TRUE
  /\ pc' = "seq_start"
  /\ UNCHANGED <<n_nodes, narcs, graph, runVars, parVars, res_seq, res_prev,
                 outVars, histVars>>

\* ------------------------------------------------------ dijkstra_sequential
\* main.cpp:304,109-123
SeqInit ==
  /\ pc = "seq_start"
  /\ dist' = InitDist(Size(graph) - 1)
  /\ parent' = InitParent(Size(graph) - 1)
  /\ pq' = InitPQ
  /\ pc' = "seq_loop"
  /\ UNCHANGED <<loadVars, d, u, i, parVars, res_seq, res_prev, outVars>>
  /\ visit' = <<>>
  /\ UNCHANGED visit_seq

\* SeqPopStale without the continue of main.cpp:132: the outdated entry goes
\* on to the relaxation of its node's edges.
SeqPopStaleRelaxes ==
  /\ pc = "seq_loop"
  /\ pq # <<>>
  /\ Head(pq)[1] # dist[Head(pq)[2]]
  /\ d' = Head(pq)[1]
  /\ u' = Head(pq)[2]
  /\ pq' = Tail(pq)
  /\ i' = 1
  /\ pc' = IF graph[Head(pq)[2]] = <<>> THEN "seq_loop" ELSE "seq_relax"
  /\ UNCHANGED <<loadVars, dist, parent, parVars, res_seq, res_prev, outVars,
                 histVars>>

\* main.cpp:126-133  pop of an outdated entry
SeqPopStale ==
  /\ pc = "seq_loop"
  /\ pq # <<>>
  /\ Head(pq)[1] # dist[Head(pq)[2]]
  /\ d' = Head(pq)[1]
  /\ u' = Head(pq)[2]
  /\ pq' = Tail(pq)
  /\ UNCHANGED <<pc, loadVars, dist, parent, i, parVars, res_seq, res_prev,
                 outVars, histVars>>

\* main.cpp:126-136  pop of a current entry: its edges are relaxed next
SeqPop ==
  /\ pc = "seq_loop"
  /\ pq # <<>>
  /\ Head(pq)[1] = dist[Head(pq)[2]]
  /\ d' = Head(pq)[1]
  /\ u' = Head(pq)[2]
  /\ pq' = Tail(pq)
  /\ i' = 1
  /\ pc' = IF graph[Head(pq)[2]] = <<>> THEN "seq_loop" ELSE "seq_relax"
  /\ UNCHANGED <<loadVars, dist, parent, parVars, res_seq, res_prev, outVars>>
  /\ visit' = Append(visit, Head(pq)[2])
  /\ UNCHANGED visit_seq

\* main.cpp:136-146  one edge of u
SeqRelax ==
  /\ pc = "seq_relax"
  /\ d + graph[u][i].weight >= MinDist
  /\ LET st == RelaxEdge(State(dist, parent, pq), d, u, graph[u][i]) IN
       /\ dist' = st.dist
       /\ parent' = st.parent
       /\ pq' = st.pq
  /\ i' = i + 1
  /\ pc' = IF i = Len(graph[u]) THEN "seq_loop" ELSE "seq_relax"
  /\ UNCHANGED <<loadVars, d, u, parVars, res_seq, res_prev, outVars, histVars>>

\* main.cpp:126,149,304  the queue is empty: the result is returned
SeqReturn ==
  /\ pc = "seq_loop"
  /\ pq = <<>>
  /\ res_seq' = [dist |-> dist, parent |-> parent]
  /\ pc' = "par_start"
  /\ UNCHANGED <<loadVars, runVars, parVars, res_prev, outVars>>
  /\ visit_seq' = visit
  /\ UNCHANGED visit

\* -------------------------------------------------------- dijkstra_parallel
\* main.cpp:313,168-178
ParInit ==
  /\ pc = "par_start"
  /\ dist' = InitDist(Size(graph) - 1)
  /\ parent' = InitParent(Size(graph) - 1)
  /\ pq' = InitPQ
  /\ pc' = "par_loop"
  /\ UNCHANGED <<loadVars, d, u, i, parVars, res_seq, res_prev, outVars>>
  /\ visit' = <<>>
  /\ UNCHANGED visit_seq

\* main.cpp:184-189  pop of an outdated entry
ParPopStale ==
  /\ pc = "par_loop"
  /\ pq # <<>>
  /\ Head(pq)[1] # dist[Head(pq)[2]]
  /\ d' = Head(pq)[1]
  /\ u' = Head(pq)[2]
  /\ pq' = Tail(pq)
  /\ UNCHANGED <<pc, loadVars, dist, parent, i, parVars, res_seq, res_prev,
                 outVars, histVars>>

\* main.cpp:184-196,220-224  pop of a current entry and choice of the branch:
\* no edge, the sequential branch, or the dispatch of the parallel_for
ParPop ==
  /\ pc = "par_loop"
  /\ pq # <<>>
  /\ Head(pq)[1] = dist[Head(pq)[2]]
  /\ d' = Head(pq)[1]
  /\ u' = Head(pq)[2]
  /\ pq' = Tail(pq)
  /\ i' = 1
  /\ LET edges == graph[Head(pq)[2]] IN
       IF edges = <<>>
       THEN pc' = "par_loop" /\ UNCHANGED parVars
       ELSE IF UseSequentialBranch(edges)
       THEN pc' = "par_relax" /\ UNCHANGED parVars
       ELSE /\ pc' = "par_workers"
            /\ wstate' = [k \in 1..Len(edges) |-> "todo"]
            /\ update_mutex' = 0
            /\ all_updates' = <<>>
  /\ UNCHANGED <<loadVars, dist, parent, res_seq, res_prev, outVars>>
  /\ visit' = Append(visit, Head(pq)[2])
  /\ UNCHANGED visit_seq

\* main.cpp:198-208  one edge of u in the sequential branch
ParRelax ==
  /\ pc = "par_relax"
  /\ d + graph[u][i].weight >= MinDist
  /\ LET st == RelaxEdgeSmall(State(dist, parent, pq), d, u, graph[u][i]) IN
       /\ dist' = st.dist
       /\ parent' = st.parent
       /\ pq' = st.pq
  /\ i' = i + 1
  /\ pc' = IF i = Len(graph[u]) THEN "par_loop" ELSE "par_relax"
  /\ UNCHANGED <<loadVars, d, u, parVars, res_seq, res_prev, outVars, histVars>>

\* Edge indexes whose parallel_for body is in progress on some worker thread.
Running == {k \in DOMAIN wstate : wstate[k] \in {"want", "locked"}}

\* main.cpp:224-229  a worker thread starts the body of index k: it reads
\* dist and compares.  At most p bodies are in progress (main.cpp:297-298).
WorkerCheck(k) ==
  /\ pc = "par_workers"
  /\ wstate[k] = "todo"
  /\ Cardinality(Running) < p
  /\ d + graph[u][k].weight >= MinDist
  /\ wstate' = [wstate EXCEPT ![k] =
                  IF Proposes(dist, d, graph[u][k]) THEN "want" ELSE "done"]
  /\ UNCHANGED <<pc, loadVars, runVars, update_mutex, all_updates, res_seq,
                 res_prev, outVars, histVars>>

\* WorkerLock without the mutex: the body goes on to push_back whether or not
\* another body holds update_mutex.
WorkerLockNoMutex(k) ==
  /\ pc = "par_workers"
  /\ wstate[k] = "want"
  /\ update_mutex' = k
  /\ wstate' = [wstate EXCEPT ![k] = "locked"]
  /\ UNCHANGED <<pc, loadVars, runVars, all_updates, res_seq, res_prev,
                 outVars, histVars>>

\* main.cpp:233  lock_guard takes update_mutex
WorkerLock(k) ==
  /\ pc = "par_workers"
  /\ wstate[k] = "want"
  /\ update_mutex = 0
  /\ update_mutex' = k
  /\ wstate' = [wstate EXCEPT ![k] = "locked"]
  /\ UNCHANGED <<pc, loadVars, runVars, all_updates, res_seq, res_prev,
                 outVars, histVars>>

\* WorkerAppend with the candidate's distance written without the weight.
WorkerAppendNoWeight(k) ==
  /\ pc = "par_workers"
  /\ wstate[k] = "locked"
  /\ all_updates' = Append(all_updates, Update(graph[u][k].to, d, u))
  /\ update_mutex' = 0
  /\ wstate' = [wstate EXCEPT ![k] = "done"]
  /\ UNCHANGED <<pc, loadVars, runVars, res_seq, res_prev, outVars, histVars>>

\* WorkerAppend that leaves update_mutex held when the body ends.
WorkerAppendNoUnlock(k) ==
  /\ pc = "par_workers"
  /\ wstate[k] = "locked"
  /\ all_updates' = Append(all_updates,
                           Update(graph[u][k].to, d + graph[u][k].weight, u))
  /\ wstate' = [wstate EXCEPT ![k] = "done"]
  /\ UNCHANGED <<pc, loadVars, runVars, update_mutex, res_seq, res_prev,
                 outVars, histVars>>

\* main.cpp:234-235  push_back, then the lock_guard releases the mutex
WorkerAppend(k) ==
  /\ pc = "par_workers"
  /\ wstate[k] = "locked"
  /\ all_updates' = Append(all_updates,
                           Update(graph[u][k].to, d + graph[u][k].weight, u))
  /\ update_mutex' = 0
  /\ wstate' = [wstate EXCEPT ![k] = "done"]
  /\ UNCHANGED <<pc, loadVars, runVars, res_seq, res_prev, outVars, histVars>>

\* Join that returns as soon as one body has finished.
JoinEarly ==
  /\ pc = "par_workers"
  /\ \E k \in DOMAIN wstate : wstate[k] = "done"
  /\ pc' = "par_merge"
  /\ i' = 1
  /\ UNCHANGED <<loadVars, dist, parent, pq, d, u, parVars, res_seq, res_prev,
                 outVars, histVars>>

\* main.cpp:224,236-239  parallel_for returns when every body has finished
Join ==
  /\ pc = "par_workers"
  /\ \A k \in DOMAIN wstate : wstate[k] = "done"
  /\ pc' = "par_merge"
  /\ i' = 1
  /\ UNCHANGED <<loadVars, dist, parent, pq, d, u, parVars, res_seq, res_prev,
                 outVars, histVars>>

\* main.cpp:239-247  one update of the merge loop
ParMerge ==
  /\ pc = "par_merge"
  /\ i <= Len(all_updates)
  /\ LET st == ApplyUpdate(State(dist, parent, pq), all_updates[i]) IN
       /\ dist' = st.dist
       /\ parent' = st.parent
       /\ pq' = st.pq
  /\ i' = i + 1
  /\ UNCHANGED <<pc, loadVars, d, u, parVars, res_seq, res_prev, outVars, histVars>>

\* main.cpp:239,248  the merge loop ends; all_updates and update_mutex go out
\* of scope
ParMergeEnd ==
  /\ pc = "par_merge"
  /\ i > Len(all_updates)
  /\ pc' = "par_loop"
  /\ wstate' = <<>>
  /\ update_mutex' = 0
  /\ all_updates' = <<>>
  /\ UNCHANGED <<loadVars, runVars, res_seq, res_prev, outVars, histVars>>

\* main.cpp:184,250,313,334-335  the queue is empty: the result is returned
ParReturn ==
  /\ pc = "par_loop"
  /\ pq = <<>>
  /\ pc' = "path_start"
  /\ UNCHANGED <<loadVars, runVars, parVars, res_seq, res_prev, outVars, histVars>>

\* -------------------------------------------------------- main: the path
\* main.cpp:278,337-342  argv[2] is the target; the walk starts there
PathStart(t) ==
  /\ pc = "path_start"
  /\ target' = t
  /\ v' = t
  /\ path' = <<>>
  /\ pc' = "path_loop"
  /\ UNCHANGED <<loadVars, runVars, parVars, res_seq, res_prev, histVars>>

\* main.cpp:342-345  one iteration of the walk
PathStep ==
  /\ pc = "path_loop"
  /\ v # NoParent
  /\ path' = Append(path, v)
  /\ v' = parent[v]
  /\ UNCHANGED <<pc, loadVars, runVars, parVars, res_seq, res_prev, target,
                 histVars>>

\* main.cpp:342,347-354  the walk ends; the path is reversed and printed
PathEnd ==
  /\ pc = "path_loop"
  /\ v = NoParent
  /\ path' = Reverse(path)
  /\ pc' = "done"
  /\ UNCHANGED <<loadVars, runVars, parVars, res_seq, res_prev, target, v,
                 histVars>>

\* main.cpp:313  a second call dijkstra_parallel(graph, source) on the same
\* graph, the result of the first call kept for comparison
Rerun ==
  /\ pc = "path_start"
  /\ res_prev = <<>>
  /\ res_prev' = [dist |-> dist, parent |-> parent]
  /\ pc' = "par_start"
  /\ UNCHANGED <<loadVars, runVars, parVars, res_seq, outVars, histVars>>

\* ------------------------------------------------------- specifications
Next ==
  \/ OpenFail
  \/ OpenOk
  \/ ReadProblem
  \/ \E au \in 1..NumNodes, av \in 1..NumNodes, aw \in Weights :
       ReadArc(au, av, aw)
  \/ EndOfFile
  \/ SeqInit
  \/ SeqPopStale
  \/ SeqPop
  \/ SeqRelax
  \/ SeqReturn
  \/ ParInit
  \/ ParPopStale
  \/ ParPop
  \/ ParRelax
  \/ \E k \in DOMAIN wstate : WorkerCheck(k)
  \/ \E k \in DOMAIN wstate : WorkerLock(k)
  \/ \E k \in DOMAIN wstate : WorkerAppend(k)
  \/ Join
  \/ ParMerge
  \/ ParMergeEnd
  \/ ParReturn
  \/ \E t \in 1..NumNodes : PathStart(t)
  \/ PathStep
  \/ PathEnd

\* main, from the opening of the file to the printed path
Spec == Init /\ [][Next]_vars

\* main with dijkstra_parallel called a second time on the same graph
NextRerun == Next \/ Rerun
SpecRerun == Init /\ [][NextRerun]_vars

\* main on input files that also hold arcs naming node id 0, which lies
\* outside [1, n] and inside the n + 1 slots of the vectors (the behaviour of
\* the code is defined on it; an id above n indexes past the vectors)
NextIds ==
  \/ Next
  \/ \E au \in 0..NumNodes, av \in 0..NumNodes, aw \in Weights :
       (au = 0 \/ av = 0) /\ ReadArc(au, av, aw)
SpecIds == Init /\ [][NextIds]_vars

\* ------------------------------------------------- reference definitions
\* The states of a run in progress (dist, parent and pq are those of the run).
InSeqRun == pc \in {"seq_loop", "seq_relax"}
InParRun == pc \in {"par_loop", "par_relax", "par_workers", "par_merge"}
InRun == InSeqRun \/ InParRun
\* dijkstra_sequential has just returned: res_seq holds its result, which no
\* later step changes.
SeqTerminated == pc = "par_start"
\* dijkstra_parallel has just returned: dist and parent hold its result, which
\* no later step changes.
ParTerminated == pc = "path_start"

Nodes(g) == DOMAIN g
EdgeIdx(g, y) == DOMAIN g[y]
NonNegative(g) == \A y \in Nodes(g) : \A j \in EdgeIdx(g, y) : g[y][j].weight >= 0
HasNegative(g) == \E y \in Nodes(g) : \E j \in EdgeIdx(g, y) : g[y][j].weight < 0
HasEdge(g, a, b, w) ==
  a \in Nodes(g) /\ \E j \in EdgeIdx(g, a) : g[a][j] = Edge(b, w)

\* Nodes with a directed path from the source.
Successors(g, S) == {g[y][j].to : <<y, j>> \in {yj \in S \X (1..MaxArcs) : yj[2] \in EdgeIdx(g, yj[1])}}
RECURSIVE ReachFrom(_, _, _)
ReachFrom(g, S, k) ==
  IF k = 0 THEN S ELSE ReachFrom(g, S \cup Successors(g, S), k - 1)
Reachable(g) == ReachFrom(g, {source}, Size(g))

SetMin(S) == CHOOSE m \in S : \A x \in S : m <= x

\* One round of Bellman relaxation of every edge, and its least fixed point
\* from the initial distances (weights non-negative: Size(g) rounds reach it).
BellmanRound(g, ds) ==
  [x \in Nodes(g) |->
     SetMin({ds[x]} \cup {ds[y] + g[y][j].weight :
                            <<y, j>> \in {yj \in Nodes(g) \X (1..MaxArcs) :
                                            /\ yj[2] \in EdgeIdx(g, yj[1])
                                            /\ g[yj[1]][yj[2]].to = x
                                            /\ ds[yj[1]] < INF}})]
RECURSIVE BellmanIter(_, _, _)
BellmanIter(g, ds, k) ==
  IF k = 0 THEN ds ELSE BellmanIter(g, BellmanRound(g, ds), k - 1)
ShortestDist(g) == BellmanIter(g, InitDist(Size(g) - 1), Size(g))

\* The whole sequential branch and the whole merge loop, as the folds of
\* their iterations.
RECURSIVE FoldRelaxSmall(_, _, _, _)
FoldRelaxSmall(st, dd, uu, edges) ==
  IF edges = <<>> THEN st
  ELSE FoldRelaxSmall(RelaxEdgeSmall(st, dd, uu, Head(edges)), dd, uu, Tail(edges))
RECURSIVE FoldMerge(_, _)
FoldMerge(st, ups) ==
  IF ups = <<>> THEN st ELSE FoldMerge(ApplyUpdate(st, Head(ups)), Tail(ups))

\* v's parent p is a predecessor that gives v's distance.
GoodParent(g, ds, x, pp) ==
  /\ pp \in Nodes(g)
  /\ \E j \in EdgeIdx(g, pp) : g[pp][j].to = x /\ ds[x] = ds[pp] + g[pp][j].weight

\* The weight of the walk s along the cheapest stored edge of each hop.
HopWeight(g, a, b) == SetMin({w \in Weights : HasEdge(g, a, b, w)})
RECURSIVE WalkWeight(_, _)
WalkWeight(g, s) ==
  IF Len(s) < 2 THEN 0 ELSE HopWeight(g, s[1], s[2]) + WalkWeight(g, Tail(s))

\* ------------------------------------------------------------------ claims

\* C1: on a graph with non-negative weights, the distances returned by
\* dijkstra_parallel equal, node by node, those returned by
\* dijkstra_sequential, whatever the workers' interleaving; where the parents
\* differ, both are predecessors giving the same distance.
C1_ParallelEqualsSequential ==
  (ParTerminated /\ NonNegative(graph)) =>
    /\ dist = res_seq.dist
    /\ \A x \in Nodes(graph) :
         \/ parent[x] = res_seq.parent[x]
         \/ /\ GoodParent(graph, dist, x, parent[x])
            /\ GoodParent(graph, dist, x, res_seq.parent[x])
\* A non-negative graph whose source went through the parallel branch and
\* reached another node.
C1_Witness ==
  /\ ParTerminated /\ NonNegative(graph)
  /\ ~UseSequentialBranch(graph[source])
  /\ \E x \in Nodes(graph) : x # source /\ dist[x] < INF

\* C2: when a run has terminated on a graph with non-negative weights, every
\* node reachable from the source holds the weight of a minimum-weight path
\* (the least fixed point of Bellman relaxation), in both runs.
C2_ShortestDistances ==
  ((SeqTerminated \/ ParTerminated) /\ NonNegative(graph)) =>
    LET sd == ShortestDist(graph)
        reach == Reachable(graph)
    IN  /\ SeqTerminated => \A x \in reach : res_seq.dist[x] = sd[x]
        /\ ParTerminated => \A x \in reach : dist[x] = sd[x]
\* The scenario of the specification: the direct edge to a node is longer
\* than the path through a third node.
C2_Witness ==
  /\ ParTerminated /\ NonNegative(graph)
  /\ \E x \in Nodes(graph) : \E w \in Weights :
       HasEdge(graph, source, x, w) /\ dist[x] < w /\ parent[x] # source

\* C3: after the run, for a reachable target, the reversed parent walk starts
\* at the source, ends at the target, follows graph edges, and the weights of
\* its edges sum to dist[target].
C3_PathValid ==
  (pc = "done" /\ dist[target] # INF) =>
    /\ path # <<>>
    /\ path[1] = source
    /\ path[Len(path)] = target
    /\ \A k \in 1..(Len(path) - 1) :
         \E w \in Weights : HasEdge(graph, path[k], path[k + 1], w)
    /\ WalkWeight(graph, path) = dist[target]
\* A path of three nodes whose first hop came from a parallel batch.
C3_Witness ==
  /\ pc = "done" /\ Len(path) = 3
  /\ ~UseSequentialBranch(graph[source])

\* C4: dist[v] never increases in a step of a run.
C4_DistNeverIncreases ==
  [][InRun => \A x \in DOMAIN dist : dist'[x] <= dist[x]]_vars
\* A node whose distance was lowered twice: an outdated entry for it is
\* still queued.
C4_Witness ==
  /\ InRun
  /\ \E k \in DOMAIN pq : pq[k][1] > dist[pq[k][2]] /\ pq[k][1] < INF

\* C5 (as claimed): dist[source] = 0 in every state of a run.
C5_SourceAlwaysZero ==
  (InRun \/ ParTerminated) => dist[source] = 0
\* C5 on the inputs the specification allows (non-negative weights).
SourceZeroNonNegative ==
  ((InRun \/ ParTerminated) /\ NonNegative(graph)) => dist[source] = 0

\* C6: a node with no directed path from the source holds INF and no parent
\* when a run terminates, in both runs.
C6_UnreachableStaysInf ==
  (SeqTerminated \/ ParTerminated) =>
    LET unreached == Nodes(graph) \ Reachable(graph) IN
      /\ SeqTerminated =>
           \A x \in unreached :
             res_seq.dist[x] = INF /\ res_seq.parent[x] = NoParent
      /\ ParTerminated =>
           \A x \in unreached : dist[x] = INF /\ parent[x] = NoParent
\* An unreachable node with an edge into a reached node, next to a reached
\* node other than the source.
C6_Witness ==
  /\ ParTerminated
  /\ \E x \in 1..NumNodes : \E y \in 1..NumNodes :
       /\ x \notin Reachable(graph) /\ y \in Reachable(graph) /\ y # source
       /\ \E w \in Weights : HasEdge(graph, x, y, w)

\* C7: two runs of dijkstra_parallel on the same graph and source return the
\* same distances, whatever the two worker schedules.
C7_RerunSameDistances ==
  (ParTerminated /\ res_prev # <<>>) => dist = res_prev.dist
\* Both runs are over, and the source's batch held two candidates for one
\* node, which the workers may append in either order.
C7_Witness ==
  /\ ParTerminated /\ res_prev # <<>>
  /\ \E j \in EdgeIdx(graph, source) : \E k \in EdgeIdx(graph, source) :
       /\ graph[source][j].to = graph[source][k].to
       /\ graph[source][j].to # source
       /\ graph[source][j].weight # graph[source][k].weight

\* C8: when the workers of a batch have finished, merging their candidates
\* leaves dist and parent as the sequential branch would leave them on the
\* same edges, for every order of the candidates; this includes an edge count
\* of exactly the threshold.
C8_BranchesAgree ==
  (pc = "par_merge" /\ i = 1) =>
    LET st == State(dist, parent, pq)
        merged == FoldMerge(st, all_updates)
        relaxed == FoldRelaxSmall(st, d, u, graph[u])
    IN  merged.dist = relaxed.dist /\ merged.parent = relaxed.parent
\* A node with exactly the threshold count of edges, whose two candidates for
\* one node were appended worse first.
C8_Witness ==
  /\ pc = "par_merge" /\ i = 1
  /\ Len(graph[u]) = PARALLEL_THRESHOLD
  /\ Len(all_updates) = 2
  /\ all_updates[1].v = all_updates[2].v
  /\ all_updates[1].nd > all_updates[2].nd

\* C9 (as claimed): for every node v other than the source, either
\* dist[v] = INF and parent[v] = none, or parent[v] = p with an edge p -> v of
\* weight w and dist[v] = dist[p] + w.
C9_DistParentPaired ==
  (InRun \/ ParTerminated) =>
    \A x \in Nodes(graph) \ {source} :
      \/ dist[x] = INF /\ parent[x] = NoParent
      \/ GoodParent(graph, dist, x, parent[x])
\* C9 on the inputs the specification allows (non-negative weights).
DistParentPairedNonNegative ==
  NonNegative(graph) => C9_DistParentPaired

\* C10 (as claimed): a graph with a negative-weight edge is rejected: loading
\* reports failure and no run is started on it.
C10_NegativeRejected ==
  (HasNegative(graph) /\ pc \notin {"open", "problem", "arcs"}) =>
    (ok = FALSE /\ pc = "exit")

\* A node id of the declared range [1, n].
InRange(x) == x \in 1..n_nodes

\* C11 (as claimed): an arc whose start or end lies outside [1, n] is
\* rejected: no such edge is stored in the adjacency lists, loading does not
\* report success on such a file, and no run relaxes the edges of a node
\* outside [1, n] or writes dist outside [1, n].
C11_OutOfRangeRejected ==
  /\ pc \notin {"open", "problem"} =>
       \A y \in Nodes(graph) : \A j \in EdgeIdx(graph, y) :
         InRange(y) /\ InRange(graph[y][j].to)
  /\ InRun => \A y \in Nodes(graph) \ (1..n_nodes) : dist[y] = INF

\* C12 (as claimed): for a target whose distance is INF after the run, the
\* reconstructed path is empty.
C12_UnreachablePathEmpty ==
  (pc = "done" /\ dist[target] = INF) => path = <<>>

\* The candidates of all_updates for node x, and the smaller of two numbers.
CandidatesFor(x) == {k \in DOMAIN all_updates : all_updates[k].v = x}
Min2(a, b) == IF a < b THEN a ELSE b
\* The merge loop is at its end: every candidate has been handled.
MergeOver == pc = "par_merge" /\ i > Len(all_updates)

\* C13: each step of the merge loop leaves the candidate's node with the
\* smaller of its distance and the candidate's, and every other node as it
\* was; so when the loop is over every node that had candidates holds the
\* least of them (each was below the distance the round started from),
\* whatever the order of the appends, and no candidate lies below the
\* distance written.
C13_MergeTakesMinimum ==
  /\ [](MergeOver =>
          \A x \in Nodes(graph) : \A k \in CandidatesFor(x) :
            /\ dist[x] <= all_updates[k].nd
            /\ \E j \in CandidatesFor(x) : dist[x] = all_updates[j].nd)
  /\ [][(pc = "par_merge" /\ i <= Len(all_updates)) =>
          \A x \in Nodes(graph) :
            dist'[x] = IF x = all_updates[i].v
                       THEN Min2(dist[x], all_updates[i].nd)
                       ELSE dist[x]]_vars
\* The loop is over and the second of two candidates for one node was the
\* worse one: it was not applied over the better value.
C13_Witness ==
  /\ MergeOver
  /\ Len(all_updates) >= 2
  /\ all_updates[1].v = all_updates[2].v
  /\ all_updates[1].nd < all_updates[2].nd
  /\ dist[all_updates[1].v] = all_updates[1].nd

\* The bodies of the current parallel_for that are between lock and unlock.
Locked == {k \in DOMAIN wstate : wstate[k] = "locked"}
\* The bodies that have not finished.
Unfinished == {k \in DOMAIN wstate : wstate[k] # "done"}

\* C14: while the bodies of parallel_for run, no step changes dist, parent
\* or pq (a body only reads dist and appends to all_updates), and the
\* control thread reaches the merge loop, its next write, only when every
\* body has finished.
C14_NoDataRace ==
  /\ [](pc = "par_merge" => Unfinished = {})
  /\ [][pc = "par_workers" =>
          (dist' = dist /\ parent' = parent /\ pq' = pq)]_vars
\* A body has appended its candidate while another has not started.
C14_Witness ==
  /\ pc = "par_workers"
  /\ all_updates # <<>>
  /\ \E k \in DOMAIN wstate : wstate[k] = "todo"

\* The candidate the body of edge index j proposes.
Proposal(j) == Update(graph[u][j].to, d + graph[u][j].weight, u)
\* The edge indices of u whose body proposes a candidate.
Proposers == {j \in EdgeIdx(graph, u) : Proposes(dist, d, graph[u][j])}

\* C15: at most one body is between lock and unlock, and it is the holder
\* of update_mutex; when parallel_for has returned, all_updates holds each
\* proposing edge's candidate exactly once and nothing else (as many of each
\* value as edges propose it).
C15_AppendsExclusiveNoneLost ==
  /\ pc = "par_workers" =>
       /\ Cardinality(Locked) <= 1
       /\ \A k \in Locked : update_mutex = k
       /\ Locked = {} => update_mutex = 0
  /\ (pc = "par_merge" /\ i = 1) =>
       /\ Len(all_updates) = Cardinality(Proposers)
       /\ \A j \in Proposers :
            Cardinality({k \in DOMAIN all_updates : all_updates[k] = Proposal(j)})
              = Cardinality({m \in Proposers : Proposal(m) = Proposal(j)})
\* parallel_for has returned with two candidates from a node of three edges.
C15_Witness ==
  /\ pc = "par_merge" /\ i = 1
  /\ Len(graph[u]) = 3
  /\ Len(all_updates) = 2
  /\ all_updates[1] # all_updates[2]

\* C16: the nodes popped with a current distance, in pop order, are the same
\* in dijkstra_parallel as in dijkstra_sequential on the same graph.
C16_SameVisitOrder == ParTerminated => visit = visit_seq
\* The parallel run is over, has visited all three nodes and has merged a
\* batch of candidates on its way.
C16_Witness ==
  /\ ParTerminated
  /\ Len(visit) >= 3
  /\ \E y \in Nodes(graph) : Len(graph[y]) >= PARALLEL_THRESHOLD /\ dist[y] < INF

\* The main loop of either run is at its top.
AtLoopTop == pc \in {"seq_loop", "par_loop"}

\* C17: a pop whose distance differs from the node's current distance only
\* removes the entry: dist, parent and the rest of the queue stay as they
\* are and the loop is back at its top with no node visited; a pop that
\* starts a relaxation or visits a node has the node's current distance.
C17_StalePopDiscarded ==
  [][(AtLoopTop /\ pq # <<>>) =>
       LET h == Head(pq) IN
         /\ h[1] # dist[h[2]] =>
              /\ dist' = dist /\ parent' = parent
              /\ pq' = Tail(pq)
              /\ pc' = pc /\ visit' = visit
         /\ (pc' # pc \/ visit' # visit) => h[1] = dist[h[2]]]_vars
\* The sequential run has just discarded an outdated entry of a node that
\* has edges, and entries remain.
C17_Witness ==
  /\ pc = "seq_loop"
  /\ NonNegative(graph)
  /\ u # 0 /\ d # dist[u]
  /\ graph[u] # <<>>
  /\ pq # <<>>

\* The program under fair scheduling: a step that stays possible, of the
\* control thread or of a body of parallel_for, is eventually taken.
SpecFair == Spec /\ WF_vars(Next)

\* C18: on a graph without negative weights every dispatched parallel_for
\* returns with every body finished and update_mutex free, and both runs
\* reach their return with the queue empty.
C18_Terminates ==
  /\ (pc = "par_workers" /\ NonNegative(graph))
       ~> (pc = "par_merge" /\ Unfinished = {} /\ update_mutex = 0)
  /\ (pc = "seq_start" /\ NonNegative(graph))
       ~> (SeqTerminated /\ pq = <<>>)
  /\ (pc = "par_start" /\ NonNegative(graph))
       ~> (ParTerminated /\ pq = <<>>)
\* The parallel run has returned on a graph whose source has a zero-weight
\* self-loop next to another edge, merged as one batch.
C18_Witness ==
  /\ ParTerminated /\ pq = <<>>
  /\ NonNegative(graph)
  /\ Len(graph[source]) >= PARALLEL_THRESHOLD
  /\ \E j \in EdgeIdx(graph, source) :
       graph[source][j].to = source /\ graph[source][j].weight = 0
  /\ \E y \in Nodes(graph) \ {source} : dist[y] < INF /\ y # 0

\* C19: with non-negative weights, every node popped with its current
\* distance holds its shortest distance from then on, dist and parent of such
\* a node are changed by no later step of the run, no node is popped twice
\* with a current distance (its edges are relaxed at most once), and the
\* distances of these pops never decrease along the run.
C19_SettledWhenPopped ==
  /\ []((NonNegative(graph) /\ visit # <<>>) =>
          LET sd == ShortestDist(graph) IN
            /\ \A k \in DOMAIN visit : dist[visit[k]] = sd[visit[k]]
            /\ \A k, m \in DOMAIN visit :
                 k < m => visit[k] # visit[m] /\ sd[visit[k]] <= sd[visit[m]])
  /\ [][NonNegative(graph) =>
          \A k \in DOMAIN visit :
            (k \in DOMAIN visit' /\ visit'[k] = visit[k]) =>
              /\ dist'[visit[k]] = dist[visit[k]]
              /\ parent'[visit[k]] = parent[visit[k]]]_vars
\* The parallel run has popped three nodes with current distances, the
\* first of them with a batch of candidates, and still has entries to pop.
C19_Witness ==
  /\ pc = "par_loop"
  /\ NonNegative(graph)
  /\ Len(visit) = 3
  /\ Len(graph[visit[1]]) >= PARALLEL_THRESHOLD
  /\ dist[visit[2]] < dist[visit[3]]
  /\ pq # <<>>

\* The nodes popped with a current distance so far in the run, and the
\* entries of the queue.
Visited == {visit[k] : k \in DOMAIN visit}
Entries == {pq[k] : k \in DOMAIN pq}

\* C20: at the top of the main loop of either run, every node with a finite
\* distance whose edges have not been relaxed has the entry of its current
\* distance in the queue, and no entry of the queue lies below its node's
\* distance; so an empty queue means every such node has been relaxed.
C20_FrontierKeepsPending ==
  AtLoopTop =>
    /\ \A x \in Nodes(graph) :
         (dist[x] < INF /\ x \notin Visited) => <<dist[x], x>> \in Entries
    /\ \A e \in Entries : e[1] >= dist[e[2]]
\* The loop is at its top with a node waiting for its first pop and an
\* outdated entry of the same node behind it.
C20_Witness ==
  /\ AtLoopTop
  /\ \E x \in Nodes(graph) :
       /\ dist[x] < INF /\ x \notin Visited
       /\ \E e \in Entries : e[2] = x /\ e[1] > dist[x]
=============================================================================
